---------------------------- MODULE Spec2Model ----------------------------
(***************************************************************************)
(* A model of src/a.rs of rust-c-ares: AResults (the owner of a hostent    *)
(* allocated by c-ares), its borrowing and owning iterators, its Drop, and *)
(* the completion callback query_a_callback.                               *)
(*                                                                         *)
(* The foreign heap, the instrumented free routine, the client's values    *)
(* and the engine's outstanding queries are the state; every public        *)
(* operation of the file is one action.                                    *)
(***************************************************************************)
EXTENDS Integers, Sequences, FiniteSets, Bags, TLC

(***************************************************************************)
(* Bounds of the model.                                                    *)
(***************************************************************************)
MaxRecords == 2
MaxIters == 2
MaxAddrs == 2
MaxQueries == 1

(***************************************************************************)
(* Program constants.                                                      *)
(***************************************************************************)
ARES_SUCCESS == 0
NULL == 0

HostentPtrs == 1..MaxRecords
Contexts == 1..MaxQueries

(***************************************************************************)
(* Machine integers.  A usize (64-bit target) is kept as four 16-bit limbs,*)
(* most significant first; a c_int is an integer in -2^31 .. 2^31-1.       *)
(***************************************************************************)
LimbBase == 2^16
HalfLimb == 2^15

\* `x as usize` for a c_int x: sign extension to 64 bits.
usize_from_c_int(x) ==
    LET ext == IF x < 0 THEN LimbBase - 1 ELSE 0
    IN  <<ext, ext, (x \div LimbBase) % LimbBase, x % LimbBase>>

\* `u as libc::c_int` for a usize u: the low 32 bits, read as two's complement.
c_int_from_usize(u) ==
    IF u[3] >= HalfLimb THEN (u[3] - LimbBase) * LimbBase + u[4]
                        ELSE u[3] * LimbBase + u[4]

\* `c as u8` for a c_char c: the value modulo 2^8.
u8_from_c_char(c) == c % 256

\* The c_char stored in a byte of foreign memory (c_char is i8).
c_char_at(byte) == IF byte >= 128 THEN byte - 256 ELSE byte

(***************************************************************************)
(* The foreign structures.  The k-th address cell of every hostent holds   *)
(* the four bytes CellBytes(k); a hostent with n addresses has the cells   *)
(* 1..n in slots 1..n of h_addr_list and the null sentinel in slot n+1.    *)
(***************************************************************************)
CellBytes(k) == <<(85 * k) % 256, 255 - k, 128 + k, k>>

Hostent(n) == [h_name |-> "example.com", h_addr_list |-> [k \in 1..n |-> CellBytes(k)]]

NoHostent == [h_name |-> "", h_addr_list |-> <<>>]

Ok(v) == [ok |-> TRUE, val |-> v, err |-> "none"]
Err(e) == [ok |-> FALSE, val |-> [hostent |-> NULL], err |-> e]
NoResult == [ok |-> FALSE, val |-> [hostent |-> NULL], err |-> "none"]

\* utils::ares_error: one error kind per foreign failure status.
ares_error(status) ==
    CASE status = 1  -> "ENODATA"
      [] status = 10 -> "EBADRESP"
      [] status = 15 -> "ENOMEM"
      [] OTHER       -> "UNKNOWN"

VARIABLES
    heap,        \* hostent pointer -> [alloc, hostent]: what ares_parse_a_reply allocated
    freeCount,   \* hostent pointer -> number of ares_free_hostent calls on it
    results,     \* hostent pointer -> state of the AResults wrapping it
    iters,       \* the bag of the AResultsIterator values the client holds
    intoIters,   \* hostent pointer -> the AResultsIntoIterator owning that AResults
    queries,     \* context pointer -> state of the query and of its boxed handler
    hazard,      \* [uaf, oob]: a read of freed memory / of a slot past the sentinel happened
    last         \* what the last operation did at the foreign boundary

vars == <<heap, freeCount, results, iters, intoIters, queries, hazard, last>>

(***************************************************************************)
(* Values of the state.                                                    *)
(***************************************************************************)
NoPtr == [base |-> NULL, slot |-> 0]

NoIntoIter == [state |-> "none", next |-> NoPtr, a_result |-> [hostent |-> NULL],
               yielded |-> <<>>, done |-> FALSE]

\* A query the binding has issued: its handler is boxed and the engine holds
\* the pointer to it as the query's context.
Outstanding == [state |-> "outstanding", handler |-> "boxed", invoked |-> 0, uses |-> 0]

NoSlice == [ptr |-> NULL, len |-> <<0, 0, 0, 0>>]

NoCallback == [arg |-> NULL, status |-> ARES_SUCCESS, abuf |-> NULL, alen |-> 0]

NoLast == [op |-> "none", data |-> NoSlice, cb |-> NoCallback,
           calls |-> <<>>, ret |-> NoResult, handled |-> <<>>]

Init ==
    /\ heap = [p \in HostentPtrs |-> [alloc |-> FALSE, hostent |-> NoHostent]]
    /\ freeCount = [p \in HostentPtrs |-> 0]
    /\ results = [p \in HostentPtrs |-> "none"]
    /\ iters = EmptyBag
    /\ intoIters = [p \in HostentPtrs |-> NoIntoIter]
    /\ queries = [c \in Contexts |-> Outstanding]
    /\ hazard = [uaf |-> FALSE, oob |-> FALSE]
    /\ last = NoLast

(***************************************************************************)
(* The foreign library.                                                    *)
(***************************************************************************)
\* The pointers ares_parse_a_reply has not handed out yet.
Unallocated == {p \in HostentPtrs : ~heap[p].alloc}

\* The outcomes ares_parse_a_reply can have: a failure status and no
\* structure, or ARES_SUCCESS and a fresh hostent with n addresses.
Replies(statuses, counts) ==
    {[status |-> s, hostent |-> NULL, n |-> 0] : s \in statuses \ {ARES_SUCCESS}}
    \cup
    (IF ARES_SUCCESS \in statuses /\ Unallocated # {}
     THEN {[status |-> ARES_SUCCESS,
            hostent |-> CHOOSE p \in Unallocated : \A q \in Unallocated : p <= q,
            n |-> n] : n \in counts}
     ELSE {})

\* The heap after ares_parse_a_reply answered with reply.
ares_parse_a_reply(h, reply) ==
    IF reply.status = ARES_SUCCESS
    THEN [h EXCEPT ![reply.hostent] = [alloc |-> TRUE, hostent |-> Hostent(reply.n)]]
    ELSE h

\* The free counts after ares_free_hostent(p).
ares_free_hostent(fc, p) == [fc EXCEPT ![p] = @ + 1]

\* The heap once the structures freed according to fc are gone.
Released(h, fc) ==
    [p \in HostentPtrs |-> IF fc[p] > 0 THEN [alloc |-> h[p].alloc, hostent |-> NoHostent]
                                        ELSE h[p]]

Freed(p) == freeCount[p] > 0

\* The values `*(nx)` can give: the pointer in that slot of the address array;
\* anything when the array was freed or the slot lies past the sentinel.
Deref(nx) ==
    LET list == heap[nx.base].hostent.h_addr_list
        valid == heap[nx.base].alloc /\ ~Freed(nx.base) /\ nx.slot <= Len(list) + 1
    IN  IF valid
        THEN (IF nx.slot <= Len(list) THEN {[base |-> nx.base, slot |-> nx.slot]}
                                      ELSE {NoPtr})
        ELSE {NoPtr, [base |-> nx.base, slot |-> 1]}

\* The hazards after reading the slot nx.
ReadHazard(nx) ==
    [uaf |-> hazard.uaf \/ ~heap[nx.base].alloc \/ Freed(nx.base),
     oob |-> hazard.oob \/ nx.slot > Len(heap[nx.base].hostent.h_addr_list) + 1]

\* The c_char at h_addr.offset(k): byte k of the cell.
CellChar(h_addr, k) ==
    LET list == heap[h_addr.base].hostent.h_addr_list
    IN  IF h_addr.slot \in 1..Len(list) THEN c_char_at(list[h_addr.slot][k + 1])
                                        ELSE c_char_at(CellBytes(h_addr.slot)[k + 1])

(***************************************************************************)
(* AResults.                                                               *)
(***************************************************************************)
AResults_new(hostent) == [hostent |-> hostent]

\* Mutant of parse_from: the status of the foreign routine is not looked at.
parse_from_IgnoresStatus(data, reply) ==
    [calls |-> <<[abuf |-> data.ptr, alen |-> c_int_from_usize(data.len),
                  status |-> reply.status]>>,
     ret |-> Ok(AResults_new(reply.hostent))]

\* parse_from(data), given the answer of the foreign parse routine: the calls
\* made to that routine and the Result returned.
parse_from(data, reply) ==
    LET parse_status == reply.status
    IN  [calls |-> <<[abuf |-> data.ptr, alen |-> c_int_from_usize(data.len),
                      status |-> parse_status]>>,
         ret |-> IF parse_status # ARES_SUCCESS
                 THEN Err(ares_error(parse_status))
                 ELSE Ok(AResults_new(reply.hostent))]

hostname(self) == heap[self.hostent].hostent.h_name

\* Mutants of iter: the walk starts at the second slot; the iterator's
\* lifetime is not tied to the record.
iter_SkipsFirst(self) == [next |-> [base |-> self.hostent, slot |-> 2], phantom |-> self.hostent]

iter_Unbounded(self) == [next |-> [base |-> self.hostent, slot |-> 1], phantom |-> NULL]

iter(self) == [next |-> [base |-> self.hostent, slot |-> 1], phantom |-> self.hostent]

into_iter(self) == [next |-> [base |-> self.hostent, slot |-> 1], a_result |-> self]

ref_into_iter(self) == [next |-> [base |-> self.hostent, slot |-> 1], phantom |-> self.hostent]

\* Mutant of ipv4_addr_from_ptr: the four bytes are taken in reverse order.
ipv4_addr_from_ptr_Reversed(h_addr) ==
    <<u8_from_c_char(CellChar(h_addr, 3)), u8_from_c_char(CellChar(h_addr, 2)),
      u8_from_c_char(CellChar(h_addr, 1)), u8_from_c_char(CellChar(h_addr, 0))>>

ipv4_addr_from_ptr(h_addr) ==
    <<u8_from_c_char(CellChar(h_addr, 0)), u8_from_c_char(CellChar(h_addr, 1)),
      u8_from_c_char(CellChar(h_addr, 2)), u8_from_c_char(CellChar(h_addr, 3))>>

\* next() of the owning iterator, h_addr being the value read from *(self.next):
\* the new cursor and the Option returned (<<>> is None, <<a>> is Some(a)).
AResultsIntoIterator_next(self, h_addr) ==
    IF h_addr = NoPtr
    THEN [next |-> self.next, ret |-> <<>>]
    ELSE [next |-> [self.next EXCEPT !.slot = @ + 1],
          ret |-> <<ipv4_addr_from_ptr(h_addr)>>]

\* Mutant of the borrowing next(): the cursor advances before the null check.
AResultsIterator_next_AdvanceFirst(self, h_addr) ==
    IF h_addr = NoPtr
    THEN [next |-> [self.next EXCEPT !.slot = @ + 1], ret |-> <<>>]
    ELSE [next |-> [self.next EXCEPT !.slot = @ + 1],
          ret |-> <<ipv4_addr_from_ptr(h_addr)>>]

\* next() of the borrowing iterator.
AResultsIterator_next(self, h_addr) ==
    IF h_addr = NoPtr
    THEN [next |-> self.next, ret |-> <<>>]
    ELSE [next |-> [self.next EXCEPT !.slot = @ + 1],
          ret |-> <<ipv4_addr_from_ptr(h_addr)>>]

\* Mutant of Drop for AResults: the hostent is not freed.
AResults_drop_Leak(self, fc) == fc

\* Drop for AResults: the free counts afterwards.
AResults_drop(self, fc) == ares_free_hostent(fc, self.hostent)

\* The lifetime 'a of AResultsIterator<'a>: the record is borrowed while an
\* iterator tied to it is alive, and can then be neither moved nor dropped.
Borrowed(p) == \E it \in BagToSet(iters) : it.phantom = p

(***************************************************************************)
(* The completion bridge.                                                  *)
(***************************************************************************)
\* slice::from_raw_parts(abuf, len): no byte of the buffer is read.
from_raw_parts(abuf, len) == [ptr |-> abuf, len |-> len]

\* Mutants of query_a_callback: the buffer is parsed before the status is
\* looked at; a failure status returns without calling the handler.
query_a_callback_ParseFirst(arg, status, abuf, alen, reply) ==
    LET parsed == parse_from(from_raw_parts(abuf, usize_from_c_int(alen)), reply)
        ret == IF status # ARES_SUCCESS THEN Err(ares_error(status)) ELSE parsed.ret
    IN  [calls |-> parsed.calls,
         ret |-> ret,
         transmuted |-> <<arg>>,
         handled |-> <<[handler |-> arg, with |-> ret]>>]

query_a_callback_EarlyReturn(arg, status, abuf, alen, reply) ==
    IF status # ARES_SUCCESS
    THEN [calls |-> <<>>, ret |-> Err(ares_error(status)),
          transmuted |-> <<>>, handled |-> <<>>]
    ELSE LET result == parse_from(from_raw_parts(abuf, usize_from_c_int(alen)), reply)
         IN  [calls |-> result.calls,
              ret |-> result.ret,
              transmuted |-> <<arg>>,
              handled |-> <<[handler |-> arg, with |-> result.ret]>>]

\* query_a_callback(arg, status, _, abuf, alen), given the answer the foreign
\* parse routine would give: the calls made to that routine, the result, the
\* context pointers turned back into a Box<F>, and the handler invocations.
query_a_callback(arg, status, abuf, alen, reply) ==
    LET result == IF status # ARES_SUCCESS
                  THEN [calls |-> <<>>, ret |-> Err(ares_error(status))]
                  ELSE parse_from(from_raw_parts(abuf, usize_from_c_int(alen)), reply)
    IN  [calls |-> result.calls,
         ret |-> result.ret,
         transmuted |-> <<arg>>,
         handled |-> <<[handler |-> arg, with |-> result.ret]>>]

(***************************************************************************)
(* The operations.                                                         *)
(***************************************************************************)
\* The client calls AResults::parse_from(data).
ParseFrom(data, reply) ==
    LET r == parse_from(data, reply)
    IN  /\ heap' = (IF r.calls # <<>> THEN ares_parse_a_reply(heap, reply) ELSE heap)
        /\ results' = (IF r.ret.ok THEN [results EXCEPT ![r.ret.val.hostent] = "live"]
                                   ELSE results)
        /\ last' = [NoLast EXCEPT !.op = "parse_from", !.data = data,
                                  !.calls = r.calls, !.ret = r.ret]
        /\ UNCHANGED <<freeCount, iters, intoIters, queries, hazard>>

\* The client calls hostname() on a record it holds.
Hostname(p) ==
    /\ results[p] = "live"
    /\ hazard' = [hazard EXCEPT !.uaf = @ \/ Freed(p)]
    /\ hostname(AResults_new(p)) = heap[p].hostent.h_name
    /\ last' = NoLast
    /\ UNCHANGED <<heap, freeCount, results, iters, intoIters, queries>>

\* The client calls iter() on a record it holds and keeps the iterator.
Iter(p) ==
    /\ results[p] = "live"
    /\ BagCardinality(iters) < MaxIters
    /\ LET it == iter(AResults_new(p))
       IN  iters' = iters (+) SetToBag({[next |-> it.next, phantom |-> it.phantom,
                                         yielded |-> <<>>, done |-> FALSE]})
    /\ hazard' = [hazard EXCEPT !.uaf = @ \/ Freed(p)]
    /\ last' = NoLast
    /\ UNCHANGED <<heap, freeCount, results, intoIters, queries>>

\* The client writes `for a in &record`: IntoIterator for &'a AResults.
RefIntoIter(p) ==
    /\ results[p] = "live"
    /\ BagCardinality(iters) < MaxIters
    /\ LET it == ref_into_iter(AResults_new(p))
       IN  iters' = iters (+) SetToBag({[next |-> it.next, phantom |-> it.phantom,
                                         yielded |-> <<>>, done |-> FALSE]})
    /\ hazard' = [hazard EXCEPT !.uaf = @ \/ Freed(p)]
    /\ last' = NoLast
    /\ UNCHANGED <<heap, freeCount, results, intoIters, queries>>

\* The client calls next() on a borrowing iterator it holds.
IterNext(it) ==
    /\ BagIn(it, iters)
    /\ \E h_addr \in Deref(it.next) :
          LET r == AResultsIterator_next(it, h_addr)
          IN  iters' = (iters (-) SetToBag({it}))
                       (+) SetToBag({[it EXCEPT !.next = r.next,
                                                !.yielded = @ \o r.ret,
                                                !.done = @ \/ r.ret = <<>>]})
    /\ hazard' = ReadHazard(it.next)
    /\ last' = NoLast
    /\ UNCHANGED <<heap, freeCount, results, intoIters, queries>>

\* A borrowing iterator goes out of scope.
DropIter(it) ==
    /\ BagIn(it, iters)
    /\ iters' = iters (-) SetToBag({it})
    /\ last' = NoLast
    /\ UNCHANGED <<heap, freeCount, results, intoIters, queries, hazard>>

\* Mutant of IntoIter: the record is dropped at the conversion, the iterator
\* keeping a copy of its pointer.
IntoIter_DropsRecord(p) ==
    /\ results[p] = "live"
    /\ ~Borrowed(p)
    /\ LET it == into_iter(AResults_new(p))
       IN  intoIters' = [intoIters EXCEPT ![p] = [state |-> "alive", next |-> it.next,
                                                  a_result |-> it.a_result,
                                                  yielded |-> <<>>, done |-> FALSE]]
    /\ results' = [results EXCEPT ![p] = "moved"]
    /\ freeCount' = AResults_drop(AResults_new(p), freeCount)
    /\ heap' = Released(heap, freeCount')
    /\ hazard' = hazard
    /\ last' = NoLast
    /\ UNCHANGED <<iters, queries>>

\* The client calls into_iter() on a record it holds: the record moves into
\* the iterator.
IntoIter(p) ==
    /\ results[p] = "live"
    /\ ~Borrowed(p)
    /\ LET it == into_iter(AResults_new(p))
       IN  intoIters' = [intoIters EXCEPT ![p] = [state |-> "alive", next |-> it.next,
                                                  a_result |-> it.a_result,
                                                  yielded |-> <<>>, done |-> FALSE]]
    /\ results' = [results EXCEPT ![p] = "moved"]
    /\ hazard' = [hazard EXCEPT !.uaf = @ \/ Freed(p)]
    /\ last' = NoLast
    /\ UNCHANGED <<heap, freeCount, iters, queries>>

\* The client calls next() on the owning iterator made from record p.
IntoNext(p) ==
    /\ intoIters[p].state = "alive"
    /\ \E h_addr \in Deref(intoIters[p].next) :
          LET r == AResultsIntoIterator_next(intoIters[p], h_addr)
          IN  intoIters' = [intoIters EXCEPT ![p] = [@ EXCEPT !.next = r.next,
                                                              !.yielded = @ \o r.ret,
                                                              !.done = @ \/ r.ret = <<>>]]
    /\ last' = NoLast
    /\ hazard' = ReadHazard(intoIters[p].next)
    /\ UNCHANGED <<heap, freeCount, results, iters, queries>>

\* The owning iterator goes out of scope: its field a_result is dropped.
DropIntoIter(p) ==
    /\ intoIters[p].state = "alive"
    /\ freeCount' = AResults_drop(intoIters[p].a_result, freeCount)
    /\ heap' = Released(heap, freeCount')
    /\ intoIters' = [intoIters EXCEPT ![p] = NoIntoIter]
    /\ results' = [results EXCEPT ![p] = "dropped"]
    /\ last' = NoLast
    /\ UNCHANGED <<iters, queries, hazard>>

\* A record the client holds goes out of scope.
DropResults(p) ==
    /\ results[p] = "live"
    /\ ~Borrowed(p)
    /\ freeCount' = AResults_drop(AResults_new(p), freeCount)
    /\ heap' = Released(heap, freeCount')
    /\ results' = [results EXCEPT ![p] = "dropped"]
    /\ last' = NoLast
    /\ UNCHANGED <<iters, intoIters, queries, hazard>>

\* The engine completes the outstanding query c and calls query_a_callback.
\* The handler takes the result; a record in it is then the client's.
Callback(c, status, abuf, alen, reply) ==
    /\ queries[c].state = "outstanding"
    /\ \A d \in Contexts : d < c => queries[d].state = "fired"
    /\ LET r == query_a_callback(c, status, abuf, alen, reply)
           taken == r.ret.ok /\ r.handled # <<>>
           lost == r.ret.ok /\ r.handled = <<>>
       IN  /\ freeCount' = (IF lost THEN AResults_drop(r.ret.val, freeCount) ELSE freeCount)
           /\ heap' = Released(IF r.calls # <<>> THEN ares_parse_a_reply(heap, reply)
                                                ELSE heap, freeCount')
           /\ results' = (IF taken THEN [results EXCEPT ![r.ret.val.hostent] = "live"]
                          ELSE IF lost THEN [results EXCEPT ![r.ret.val.hostent] = "dropped"]
                          ELSE results)
           /\ queries' = [queries EXCEPT ![c] =
                            [state |-> "fired",
                             handler |-> IF r.transmuted # <<>> THEN "consumed" ELSE @.handler,
                             invoked |-> @.invoked + Len(r.handled),
                             uses |-> @.uses + Len(r.transmuted)]]
           /\ last' = [NoLast EXCEPT !.op = "callback",
                                     !.cb = [arg |-> c, status |-> status,
                                             abuf |-> abuf, alen |-> alen],
                                     !.calls = r.calls, !.ret = r.ret,
                                     !.handled = r.handled]
    /\ UNCHANGED <<iters, intoIters, hazard>>

(***************************************************************************)
(* The specifications.  Spec exercises every operation on small inputs;    *)
(* SpecFFI exercises the foreign boundary on buffers of every size class.  *)
(***************************************************************************)
Statuses == {ARES_SUCCESS, 10}
Counts == {0, MaxAddrs}
Slices == {[ptr |-> 1, len |-> <<0, 0, 0, 64>>]}
Lengths == {64}

\* The inputs of SpecFFI: every failure status; buffers of 0, 64, 2^31 - 1,
\* 2^31 and 2^32 + 64 bytes; the lengths the engine reports (0 .. 2^31 - 1).
FFIStatuses == {ARES_SUCCESS, 1, 10, 15}
FFISlices ==
    {[ptr |-> b, len |-> n] :
        b \in {1, 2},
        n \in {<<0, 0, 0, 0>>, <<0, 0, 0, 64>>, <<0, 0, HalfLimb - 1, LimbBase - 1>>,
               <<0, 0, HalfLimb, 0>>, <<0, 1, 0, 64>>}}
FFILengths == {0, 64, LimbBase, 2147483647}
\* The buffer the engine passes: never null with ARES_SUCCESS.
FFIBuffers(status) == IF status = ARES_SUCCESS THEN {1, 2} ELSE {NULL, 1}

Next ==
    \/ \E data \in Slices : \E reply \in Replies(Statuses, Counts) : ParseFrom(data, reply)
    \/ \E p \in HostentPtrs : Hostname(p)
    \/ \E p \in HostentPtrs : Iter(p)
    \/ \E p \in HostentPtrs : RefIntoIter(p)
    \/ \E it \in BagToSet(iters) : IterNext(it)
    \/ \E it \in BagToSet(iters) : DropIter(it)
    \/ \E p \in HostentPtrs : IntoIter(p)
    \/ \E p \in HostentPtrs : IntoNext(p)
    \/ \E p \in HostentPtrs : DropIntoIter(p)
    \/ \E p \in HostentPtrs : DropResults(p)
    \/ \E c \in Contexts : \E status \in Statuses : \E alen \in Lengths :
          \E reply \in Replies(Statuses, Counts) : Callback(c, status, 1, alen, reply)

Spec == Init /\ [][Next]_vars

NextFFI ==
    \/ \E data \in FFISlices : \E reply \in Replies(FFIStatuses, Counts) :
          ParseFrom(data, reply)
    \/ \E c \in Contexts : \E status \in FFIStatuses : \E alen \in FFILengths :
          \E abuf \in FFIBuffers(status) : \E reply \in Replies(FFIStatuses, Counts) :
             Callback(c, status, abuf, alen, reply)
    \/ \E p \in HostentPtrs : Hostname(p)
    \/ \E p \in HostentPtrs : DropResults(p)

SpecFFI == Init /\ [][NextFFI]_vars

(***************************************************************************)
(* Vocabulary of the properties.                                           *)
(***************************************************************************)
IsPrefix(a, b) == Len(a) <= Len(b) /\ \A k \in 1..Len(a) : a[k] = b[k]

Compatible(a, b) == IsPrefix(a, b) \/ IsPrefix(b, a)

\* The address array the foreign parser built for p.
AddrList(p) == heap[p].hostent.h_addr_list

\* A record is in use while the client holds it or an owning iterator holds it.
InUse(p) ==
    \/ results[p] = "live"
    \/ results[p] = "moved" /\ intoIters[p].state = "alive"

\* What `iter().collect()` gives on a borrowing iterator: next() until None.
RECURSIVE Collect(_, _)
Collect(it, fuel) ==
    LET r == AResultsIterator_next(it, CHOOSE h \in Deref(it.next) : TRUE)
    IN  IF r.ret = <<>> \/ fuel = 0
        THEN <<>>
        ELSE r.ret \o Collect([next |-> r.next, phantom |-> it.phantom], fuel - 1)

\* The cursor and history every iterator over p must show: it is on the slot
\* after the addresses it yielded, and None came only at the sentinel.
OnTrack(nx, yielded, done, p) ==
    /\ nx.base = p
    /\ nx.slot = Len(yielded) + 1
    /\ Len(yielded) <= Len(AddrList(p))
    /\ done => Len(yielded) = Len(AddrList(p))

(***************************************************************************)
(* C1.  Every hostent a successful parse produced is freed exactly once:   *)
(* no pointer's free count exceeds 1, a pointer whose record (or the       *)
(* owning iterator that took the record over) went out of use has free     *)
(* count 1, and every allocated hostent is wrapped by a record the client  *)
(* got, so none is lost.                                                   *)
(***************************************************************************)
C1_FreedExactlyOnce ==
    \A p \in HostentPtrs :
        /\ freeCount[p] <= 1
        /\ heap[p].alloc => results[p] # "none"
        /\ (heap[p].alloc /\ ~InUse(p)) => freeCount[p] = 1
        /\ results[p] = "dropped" => freeCount[p] = 1

\* Both records are gone, one of them delivered through the bridge.
C1_Witness ==
    /\ \A p \in HostentPtrs : results[p] = "dropped" /\ freeCount[p] = 1
    /\ \E c \in Contexts : queries[c].state = "fired"

(***************************************************************************)
(* C2.  After query_a_callback ran with a failure status, the foreign      *)
(* parser was not called (so the buffer was not read) and the handler got  *)
(* the error mapped from that status; after it ran with ARES_SUCCESS, the  *)
(* parser was called once, on exactly (abuf, alen), and the handler got    *)
(* the Result of that call.                                                *)
(***************************************************************************)
C2_BridgeForwards ==
    last.op = "callback" =>
        /\ Len(last.handled) = 1
        /\ last.handled[1].handler = last.cb.arg
        /\ last.handled[1].with = last.ret
        /\ last.cb.status # ARES_SUCCESS =>
              /\ last.calls = <<>>
              /\ last.ret = Err(ares_error(last.cb.status))
        /\ last.cb.status = ARES_SUCCESS =>
              /\ Len(last.calls) = 1
              /\ last.calls[1].abuf = last.cb.abuf
              /\ last.calls[1].alen = last.cb.alen
              /\ last.calls[1].status # ARES_SUCCESS =>
                    last.ret = Err(ares_error(last.calls[1].status))
              /\ last.calls[1].status = ARES_SUCCESS =>
                    /\ last.ret.ok
                    /\ heap[last.ret.val.hostent].alloc
                    /\ results[last.ret.val.hostent] = "live"

\* A completion with ARES_SUCCESS and a 65536-byte buffer whose parse succeeded.
C2_Witness ==
    /\ last.op = "callback"
    /\ last.cb.status = ARES_SUCCESS
    /\ last.cb.alen = LimbBase
    /\ last.ret.ok

(***************************************************************************)
(* C3.  A handler is invoked exactly once per completed query, on the      *)
(* failure path too, with the result computed for that completion; the     *)
(* invocation consumes the box, and the context pointer is turned into a   *)
(* box once and never again.  Before the completion nothing touches it.    *)
(***************************************************************************)
C3_HandlerOnce ==
    /\ \A c \in Contexts :
          /\ queries[c].invoked <= 1
          /\ queries[c].uses <= 1
          /\ queries[c].state = "fired" =>
                /\ queries[c].invoked = 1
                /\ queries[c].uses = 1
                /\ queries[c].handler = "consumed"
          /\ queries[c].state = "outstanding" =>
                /\ queries[c].invoked = 0
                /\ queries[c].uses = 0
                /\ queries[c].handler = "boxed"
    /\ last.op = "callback" =>
          /\ last.ret # NoResult
          /\ last.handled = <<[handler |-> last.cb.arg, with |-> last.ret]>>

\* Every query completed, the last one with a failure status.
C3_Witness ==
    /\ \A c \in Contexts : queries[c].state = "fired" /\ queries[c].invoked = 1
    /\ last.op = "callback"
    /\ last.cb.status # ARES_SUCCESS

(***************************************************************************)
(* C4.  A step in which the foreign parser reported a failure status       *)
(* returns Err with the error mapped from that status, creates no record,  *)
(* allocates nothing and frees nothing; and at no time is a pointer freed  *)
(* that no successful parse produced.                                      *)
(***************************************************************************)
ParseFailed(l) == l.calls # <<>> /\ l.calls[1].status # ARES_SUCCESS

C4_FailedParse ==
    /\ [](\A p \in HostentPtrs : freeCount[p] > 0 => heap[p].alloc)
    /\ [][ParseFailed(last') =>
            /\ last'.ret = Err(ares_error(last'.calls[1].status))
            /\ results' = results
            /\ intoIters' = intoIters
            /\ heap' = heap
            /\ freeCount' = freeCount]_vars

\* parse_from failed with EBADRESP while the client held a record.
C4_Witness ==
    /\ last.op = "parse_from"
    /\ ParseFailed(last)
    /\ last.ret = Err("EBADRESP")
    /\ \E p \in HostentPtrs : results[p] = "live"

(***************************************************************************)
(* C5.  While an owning iterator exists its record is not freed, and what  *)
(* it has yielded is a prefix of what iter() yields on the same hostent,   *)
(* the whole of it once exhausted; it also agrees with every borrowing     *)
(* iterator over an equal hostent.                                         *)
(***************************************************************************)
C5_IntoIterKeepsRecord ==
    \A p \in HostentPtrs :
        intoIters[p].state = "alive" =>
            /\ freeCount[p] = 0
            /\ intoIters[p].a_result = AResults_new(p)
            /\ LET all == Collect(iter(intoIters[p].a_result), Len(AddrList(p)) + 1)
               IN  /\ IsPrefix(intoIters[p].yielded, all)
                   /\ intoIters[p].done => intoIters[p].yielded = all
            /\ \A it \in BagToSet(iters) :
                  heap[it.next.base].hostent = heap[p].hostent =>
                      /\ Compatible(it.yielded, intoIters[p].yielded)
                      /\ (it.done /\ intoIters[p].done) =>
                            it.yielded = intoIters[p].yielded

\* An owning iterator and a borrowing iterator over an equal record, both
\* exhausted after MaxAddrs addresses.
C5_Witness ==
    \E p \in HostentPtrs :
        /\ intoIters[p].state = "alive"
        /\ intoIters[p].done
        /\ Len(intoIters[p].yielded) = MaxAddrs
        /\ \E it \in BagToSet(iters) :
              it.done /\ it.next.base # p /\ it.yielded = intoIters[p].yielded

(***************************************************************************)
(* C6.  Every borrowing iterator started at slot 1 and moved only by its   *)
(* own next() calls (its cursor is one past the addresses it yielded);     *)
(* iterators over the same record yield the same sequence; and while they  *)
(* exist the record is unchanged: still live, with the hostent the parser  *)
(* built, and not freed.                                                   *)
(***************************************************************************)
C6_IterRepeatable ==
    \A it \in BagToSet(iters) :
        /\ OnTrack(it.next, it.yielded, it.done, it.phantom)
        /\ results[it.phantom] = "live"
        /\ freeCount[it.phantom] = 0
        /\ heap[it.phantom].hostent = Hostent(Len(AddrList(it.phantom)))
        /\ \A other \in BagToSet(iters) :
              other.phantom = it.phantom =>
                  /\ Compatible(it.yielded, other.yielded)
                  /\ (it.done /\ other.done) => it.yielded = other.yielded

\* Two exhausted iterators over one record of MaxAddrs addresses.
C6_Witness ==
    \E it \in BagToSet(iters) :
        /\ it.done
        /\ Len(it.yielded) = MaxAddrs
        /\ CopiesIn(it, iters) = 2

(***************************************************************************)
(* C7.  What an iterator of either kind has yielded is, in order, the      *)
(* bytes of the first cells of the address array, each octet the unsigned  *)
(* value of the byte; it never yields more than the n cells, and it        *)
(* reports exhaustion exactly after n addresses (after none when n = 0).   *)
(***************************************************************************)
Yields(nx, yielded, done, p) ==
    /\ OnTrack(nx, yielded, done, p)
    /\ \A k \in 1..Len(yielded) :
          /\ yielded[k] = AddrList(p)[k]
          /\ \A o \in 1..4 : yielded[k][o] \in 0..255

C7_YieldsCells ==
    /\ \A it \in BagToSet(iters) : Yields(it.next, it.yielded, it.done, it.next.base)
    /\ \A p \in HostentPtrs :
          intoIters[p].state = "alive" =>
              Yields(intoIters[p].next, intoIters[p].yielded, intoIters[p].done, p)

\* An owning iterator exhausted after MaxAddrs addresses, and a borrowing
\* iterator exhausted at once on an empty array.
C7_Witness ==
    /\ \E p \in HostentPtrs :
          /\ intoIters[p].state = "alive"
          /\ intoIters[p].done
          /\ Len(intoIters[p].yielded) = MaxAddrs
    /\ \E it \in BagToSet(iters) :
          it.done /\ it.yielded = <<>> /\ AddrList(it.next.base) = <<>>

(***************************************************************************)
(* C8.  A record in use wraps an allocated hostent that was not freed; no  *)
(* read of hostname() or next() touched freed memory; and every borrowing  *)
(* iterator points into a record the client still holds.                   *)
(***************************************************************************)
C8_NoUseAfterFree ==
    /\ ~hazard.uaf
    /\ \A p \in HostentPtrs :
          InUse(p) => p # NULL /\ heap[p].alloc /\ freeCount[p] = 0
    /\ \A it \in BagToSet(iters) :
          /\ results[it.next.base] = "live"
          /\ freeCount[it.next.base] = 0

\* A borrowing iterator in the middle of its record while another record
\* has been freed.
C8_Witness ==
    /\ \E it \in BagToSet(iters) : Len(it.yielded) = 1 /\ ~it.done
    /\ \E p \in HostentPtrs : results[p] = "dropped" /\ freeCount[p] = 1

(***************************************************************************)
(* C9.  An iterator that returned None stands on the sentinel slot and     *)
(* has yielded all n addresses (so no later next() advanced it or yielded  *)
(* anything), and no next() ever read a slot past the sentinel.            *)
(***************************************************************************)
Exhausted(nx, yielded, p) ==
    /\ nx = [base |-> p, slot |-> Len(AddrList(p)) + 1]
    /\ Len(yielded) = Len(AddrList(p))

C9_ExhaustionTerminal ==
    /\ ~hazard.oob
    /\ \A it \in BagToSet(iters) :
          it.done => Exhausted(it.next, it.yielded, it.next.base)
    /\ \A p \in HostentPtrs :
          (intoIters[p].state = "alive" /\ intoIters[p].done) =>
              Exhausted(intoIters[p].next, intoIters[p].yielded, p)

\* Both kinds of iterator exhausted, on the sentinel after MaxAddrs addresses.
C9_Witness ==
    /\ \E it \in BagToSet(iters) : it.done /\ it.next.slot = MaxAddrs + 1
    /\ \E p \in HostentPtrs :
          /\ intoIters[p].state = "alive"
          /\ intoIters[p].done
          /\ intoIters[p].next.slot = MaxAddrs + 1

(***************************************************************************)
(* C10.  Each parse_from call makes one call of the foreign parser, with   *)
(* the buffer's start and a length equal to the buffer's length; and the   *)
(* bridge hands the parser the length alen it was given.                   *)
(***************************************************************************)
C10_LengthPassed ==
    /\ last.op = "parse_from" =>
          /\ Len(last.calls) = 1
          /\ last.calls[1].abuf = last.data.ptr
          /\ last.calls[1].alen >= 0
          /\ usize_from_c_int(last.calls[1].alen) = last.data.len
    /\ (last.op = "callback" /\ last.cb.status = ARES_SUCCESS) =>
          /\ Len(last.calls) = 1
          /\ last.calls[1].alen = last.cb.alen
=============================================================================
